---- MODULE Spec2Model ----
(***************************************************************************)
(* File-Organizer: the organize / undo engine.                             *)
(*                                                                         *)
(* organize_many_dirs drives one LocalFileOrganizer per requested          *)
(* directory; each organizer walks the directory lazily, categorizes every *)
(* file, creates the category directory, moves the file and records the    *)
(* mutations in a history file that is written in batches.  The undo       *)
(* command streams the newest history file, renames files back and removes *)
(* the recorded directories.                                               *)
(*                                                                         *)
(* Paths are sequences of names; a name is the pair (stem, suffix) that    *)
(* pathlib computes from it.  The history file is the sequence of tokens   *)
(* appended to it.                                                         *)
(***************************************************************************)
EXTENDS Integers, Sequences, FiniteSets, TLC

VARIABLES
    files,      \* regular files on disk: path -> [id, size]  (size in bytes)
    dirs,       \* directories on disk: set of paths
    logs,       \* log directory: timestamp of history_<timestamp>.json -> tokens
    now,        \* wall clock, in seconds
    scenario,   \* what the operator asks for: paths, flags, sequence of commands
    faults,     \* number of OS errors the filesystem has raised
    step_no,    \* number of commands of the scenario already finished
    pc,         \* position inside the running command
    run,        \* locals of organize_many_dirs
    org,        \* the current LocalFileOrganizer instance
    gen,        \* the generator returned by _create_files_gen
    cur,        \* the file being processed by _iterate_files
    und,        \* locals of the undo command, undo_files and remove_dirs
    obs         \* what the commands reported and did (observation only)

vars == <<files, dirs, logs, now, scenario, faults, step_no, pc, run, org, gen, cur, und, obs>>

----------------------------------------------------------------------------
(* Bounds of the model *)

MaxSmallFiles == 2      \* files in a hand-sized directory layout
MaxBulkFiles  == 51     \* files in a bulk layout (more than one batch)
OrderBound    == 2      \* a listing is explored in every order once this few entries remain
MaxFaults     == 1      \* OS errors raised during one scenario
MaxCollisions == 2      \* numbered names a_1 .. already taken in a destination
MaxHistory    == 3      \* entries of a history file handed to undo
MaxPathLen    == 4      \* names in a path handed to the SystemProtector
MaxPatternLen == 4      \* characters of a glob pattern handed to the validator
MaxStamps     == 2      \* distinct timestamps of the history files in the log directory

----------------------------------------------------------------------------
(* Program constants *)

BATCH_SIZE == 50
BytesPerMb == 1000 * 1000
inf        == -1        \* float("inf"): compared with Below, never with <

----------------------------------------------------------------------------
(* pathlib *)

Name(stem, suffix) == [stem |-> stem, suf |-> suffix]
DirName(s)         == Name(s, "")
joinpath(d, n)     == Append(d, n)
parent(p)          == SubSeq(p, 1, Len(p) - 1)
name(p)            == p[Len(p)]
is_relative_to(p, d) == Len(d) <= Len(p) /\ SubSeq(p, 1, Len(d)) = d

is_file(p) == p \in DOMAIN files
is_dir(p)  == p \in dirs
exists(p)  == is_file(p) \/ is_dir(p)

iterdir(d) == {p \in DOMAIN files \cup dirs : Len(p) = Len(d) + 1 /\ parent(p) = d}

Min(S) == CHOOSE x \in S : \A y \in S : x <= y
Max(S) == CHOOSE x \in S : \A y \in S : x >= y

----------------------------------------------------------------------------
(* The rule set (file_categories), loaded once and fixed for a run *)

Variant(n, lo, hi) == [name |-> n, min_size_mb |-> lo, max_size_mb |-> hi]
(* a variant the configuration gives no name *)
Nameless(lo, hi)   == [min_size_mb |-> lo, max_size_mb |-> hi]

file_categories ==
    [categories |->
        << [name |-> "Images", extensions |-> {".jpg", ".png"},
            variants |-> << Variant("small", 0, 1), Variant("large", 1, inf) >>],
           [name |-> "Docs", extensions |-> {".txt"}, variants |-> << >>],
           [name |-> "Archives", extensions |-> {".zip"},
            variants |-> << Variant("small", 0, 1), Nameless(0, 3) >>] >>,
     defaults |-> [name |-> "Other"]]

(* file_size >= dir_min_size and file_size < dir_max_size, where file_size is
   format_size_to_mb(st_size) = st_size / (1000 * 1000): the comparison of the
   quotient with whole megabytes is the comparison of the bytes with the
   megabytes scaled up. *)
Below(size_bytes, max_mb) == max_mb = inf \/ size_bytes < max_mb * BytesPerMb
InBand(size_bytes, min_mb, max_mb) ==
    size_bytes >= min_mb * BytesPerMb /\ Below(size_bytes, max_mb)

(* _find_category: first category listing the suffix, first variant whose band
   holds the size. *)
_find_category(suffix, size_bytes) ==
    LET cats == file_categories.categories
        hit  == {i \in 1..Len(cats) : suffix \in cats[i].extensions}
    IN  IF hit = {} THEN file_categories.defaults.name
        ELSE LET category == cats[Min(hit)]
                 vs  == category.variants
                 in  == {j \in 1..Len(vs) :
                            InBand(size_bytes, vs[j].min_size_mb, vs[j].max_size_mb)}
             IN  IF in = {} THEN category.name
                 ELSE vs[Min(in)].name \o "-" \o category.name

(* _find_category raises typer.Exit(1): the first variant of the matching
   category whose band holds the size has no name *)
ReachesNameless(suffix, size_bytes) ==
    LET cats == file_categories.categories
        hit  == {i \in 1..Len(cats) : suffix \in cats[i].extensions}
    IN  /\ hit # {}
        /\ LET vs == cats[Min(hit)].variants
               in == {j \in 1..Len(vs) :
                         InBand(size_bytes, vs[j].min_size_mb, vs[j].max_size_mb)}
           IN  in # {} /\ "name" \notin DOMAIN vs[Min(in)]

(* _check_cache: the first cached mapping, in insertion order, whose suffix is
   the file's and whose band holds the size; "" when there is none. *)
_check_cache(mapping, suffix, size_bytes) ==
    LET hit == {i \in 1..Len(mapping) :
                   /\ mapping[i].key[1] = suffix
                   /\ InBand(size_bytes, mapping[i].key[2], mapping[i].key[3])}
    IN  IF hit = {} THEN "" ELSE mapping[Min(hit)].dir

(* The key under which _categorize_file stores a result it looked up. *)
CacheKey(suffix) == <<suffix, 0, inf>>

(* dict assignment: an existing key keeps its place *)
DictSet(mapping, key, dir) ==
    IF \E i \in 1..Len(mapping) : mapping[i].key = key
    THEN [i \in 1..Len(mapping) |->
            IF mapping[i].key = key THEN [key |-> key, dir |-> dir] ELSE mapping[i]]
    ELSE Append(mapping, [key |-> key, dir |-> dir])

(* _categorize_file: the destination directory name and the cache afterwards *)
(* _categorize_file lets the exception of _find_category through when the
   cache has nothing for the file *)
MissingName(mapping, suffix, size_bytes) ==
    _check_cache(mapping, suffix, size_bytes) = "" /\ ReachesNameless(suffix, size_bytes)

_categorize_file(mapping, suffix, size_bytes) ==
    LET cached == _check_cache(mapping, suffix, size_bytes)
    IN  IF cached # ""
        THEN [destination_dir |-> cached, mapping |-> mapping]
        ELSE LET found == _find_category(suffix, size_bytes)
             IN  [destination_dir |-> found,
                  mapping |-> DictSet(mapping, CacheKey(suffix), found)]

----------------------------------------------------------------------------
(* The history file: the tokens appended to it, in order *)

Tok(t)      == [tok |-> t]
EntryTok(e) == [tok |-> "entry", entry |-> e]

create_dir_entry(path) ==
    [action |-> "create_dir", path |-> path, status |-> "success"]
move_file_entry(new_path, original_path) ==
    [action |-> "move_file", source |-> new_path, destination |-> original_path,
     original_name |-> name(original_path), status |-> "success"]

(* write_one_line: open in append mode, write the line *)
write_one_line(content, line) == Append(content, Tok(line))

(* write_entries: a comma before every entry but the first of the file *)
RECURSIVE write_entries(_, _, _)
write_entries(content, batch_entries, first_entry) ==
    IF batch_entries = << >> THEN content
    ELSE write_entries(
            (IF first_entry THEN content ELSE Append(content, Tok(",")))
                \o << EntryTok(Head(batch_entries)) >>,
            Tail(batch_entries), FALSE)

(* The log directory holds history_<timestamp>.json files; a file that does
   not exist yet reads as empty when it is opened for appending. *)
ContentOf(ts) == IF ts \in DOMAIN logs THEN logs[ts] ELSE << >>
WithLog(ts, content) == [t \in DOMAIN logs \cup {ts} |-> IF t = ts THEN content ELSE logs[t]]

(* get_last_history: the file with the greatest timestamp; callers test
   HasHistory first (the function raises typer.Exit when there is none). *)
HasHistory       == DOMAIN logs # {}
get_last_history == Max(DOMAIN logs)

----------------------------------------------------------------------------
(* LocalFileOrganizer *)

NoOrganizer ==
    [dir_path |-> << >>, dry_run |-> FALSE, recursive |-> FALSE,
     new_history_file |-> FALSE, last_dir |-> FALSE, iteration_depth |-> -1,
     include_hidden |-> FALSE,
     created_dir_count |-> 0, moved_files_count |-> 0, errors_count |-> 0,
     batch_entries |-> << >>, created_dirs |-> {},
     suffix_to_category_mapping |-> << >>,
     first_entry |-> TRUE, history_file_path |-> 0]

NoGen  == [at |-> << >>, entries |-> {}, stack |-> << >>, yielded |-> FALSE]
NoFile == [file |-> << >>, destination_path |-> << >>, target_path |-> << >>,
           fault |-> "none"]
NoRun  == [dry_run |-> FALSE, valid_paths |-> << >>, i |-> 0,
           total_moved |-> 0, total_created_dirs |-> 0, total_errors |-> 0]
NoUndo == [all_history |-> << >>, idx |-> 0, moved_back_count |-> 0,
           errors_count |-> 0, dirs_path |-> << >>, todo |-> << >>,
           removed_dirs_count |-> 0, dirs_errors_count |-> 0]

(* __init__ writes the opening bracket of a new history file of a real run *)
WritesHeader_also_when_dry(dry_run, new_history_file) == new_history_file
WritesHeader(dry_run, new_history_file) == ~dry_run /\ new_history_file

(* f.name.startswith("."): the names of the layouts that begin with a dot *)
DotNames == {".h"}
startswith_dot(n) == n.stem \in DotNames

(* The filters of _create_files_gen on a path of the listing *)
DepthOf(f, dir_path) == (Len(f) - 1) - Len(dir_path)
Yields_also_in_created_dirs(f) ==
    /\ is_file(f)
    /\ (org.include_hidden \/ ~startswith_dot(name(f)))
    /\ (org.iteration_depth < 0 \/ DepthOf(f, org.dir_path) <= org.iteration_depth)
Yields(f) ==
    /\ is_file(f)
    /\ (org.include_hidden \/ ~startswith_dot(name(f)))
    /\ ~ \E created_dir \in org.created_dirs : is_relative_to(f, created_dir)
    /\ (org.iteration_depth < 0 \/ DepthOf(f, org.dir_path) <= org.iteration_depth)

Candidates == {f \in gen.entries : Yields(f)}

(* The order of a directory listing is the operating system's: every order
   of the last OrderBound entries is explored, the ones before them come in
   inode order. *)
NextUp ==
    IF Cardinality(Candidates) <= OrderBound THEN Candidates
    ELSE {f \in Candidates : \A g \in Candidates : files[f].id <= files[g].id}

SubDirs(d) == {p \in iterdir(d) : is_dir(p)}

(* rglob descends depth first: the subdirectories of a directory are listed
   once its own entries have been yielded. *)
RECURSIVE DropEmpty(_)
DropEmpty(stack) ==
    IF stack # << >> /\ stack[Len(stack)] = {}
    THEN DropEmpty(SubSeq(stack, 1, Len(stack) - 1))
    ELSE stack

ToVisit == IF org.recursive THEN DropEmpty(Append(gen.stack, SubDirs(gen.at))) ELSE << >>
Exhausted == Candidates = {} /\ ToVisit = << >>

(* os.rename(src, dst) and shutil.copy2(src, dst) on the file table: an
   existing regular file at dst is replaced. *)
Rename(fs, src, dst) ==
    [p \in (DOMAIN fs \ {src}) \cup {dst} |-> IF p = dst THEN fs[src] ELSE fs[p]]
Copy_nothing(fs, src, dst) == fs
Copy(fs, src, dst) ==
    [p \in DOMAIN fs \cup {dst} |-> IF p = dst THEN fs[src] ELSE fs[p]]
Unlink(fs, src) == [p \in DOMAIN fs \ {src} |-> fs[p]]

(* _move_file, the loop that prevents overwriting: the first of
   <name>, <stem>_1<suffix>, <stem>_2<suffix>, ... that does not exist *)
RECURSIVE FreeTarget(_, _, _)
FreeTarget(destination_path, file_name, counter) ==
    LET target_path ==
            joinpath(destination_path,
                     Name(file_name.stem \o "_" \o ToString(counter), file_name.suf))
    IN  IF exists(target_path)
        THEN FreeTarget(destination_path, file_name, counter + 1)
        ELSE target_path

TargetFor_first_number_only(destination_path, file_name) ==
    IF exists(joinpath(destination_path, file_name))
    THEN joinpath(destination_path, Name(file_name.stem \o "_" \o ToString(1), file_name.suf))
    ELSE joinpath(destination_path, file_name)

TargetFor(destination_path, file_name) ==
    IF exists(joinpath(destination_path, file_name))
    THEN FreeTarget(destination_path, file_name, 1)
    ELSE joinpath(destination_path, file_name)

(* _create_dir creates (and counts, and records) a directory that is neither
   in created_dirs nor on disk *)
NeedsDir(destination_path) ==
    destination_path \notin org.created_dirs /\ ~exists(destination_path)

(* _iterate_files flushes once the batch has reached the batch size *)
BatchFull_past_the_size(batch_entries) == Len(batch_entries) > BATCH_SIZE
BatchFull(batch_entries) == Len(batch_entries) >= BATCH_SIZE

(* organize() finalizes the history when entries are left in the batch *)
Finalizes(batch_entries, dry_run) == batch_entries # << >> /\ ~dry_run

(* remove_dirs(path=...): the subdirectories of path that rmdir removes *)
EmptySubDirs(path) == {d \in SubDirs(path) : iterdir(d) = {}}

----------------------------------------------------------------------------
(* Scenarios *)

Commands == {"organize", "dry", "undo"}
NoReport == [moved |-> -1, created |-> -1, errors |-> -1]
Snapshot == [files |-> files, dirs |-> dirs, logs |-> logs]

Finish(status) ==
    /\ pc' = "idle"
    /\ step_no' = step_no + 1
    /\ obs' = [obs EXCEPT !.status = status,
                          !.done = Append(@, [cmd |-> obs.cmd, status |-> status])]

----------------------------------------------------------------------------
(* SystemProtector and validate_directory_access.  Paths are absolute and
   resolved: the sequence of their names from the root. *)

home_dir == << DirName("home"), DirName("user") >>

(* SystemProtector.is_allowed *)
is_allowed(path, allowed_paths) ==
    IF path = home_dir THEN FALSE
    ELSE \E allowed_path \in allowed_paths : is_relative_to(path, allowed_path)

(* SystemProtector (constants.py): the deny-list of system directories, the
   ones a POSIX path can be under, and the sensitive hidden names *)
_core_protected ==
    { << >> } \cup
    { << DirName(d) >> : d \in {"bin", "sbin", "usr", "etc", "var", "root", "dev", "proc",
                                "sys", "boot", "System", "Library", "Applications"} }

_protected_hidden ==
    {".config", ".local", ".cache", ".ssh", ".gnupg", ".pki", ".npm", ".docker", ".git",
     ".svn", ".venv", ".env", ".bashrc", ".zshrc", ".bash_profile", ".profile", ".vim"}

(* one element of Path.parts *)
part(n) == n.stem \o n.suf

is_protected_only_last_part(path) ==
    IF path = home_dir THEN TRUE
    ELSE IF is_relative_to(path, home_dir)
    THEN part(path[Len(path)]) \in _protected_hidden
    ELSE \E protected_path \in _core_protected : is_relative_to(path, protected_path)

(* SystemProtector.is_protected *)
is_protected(path) ==
    IF path = home_dir THEN TRUE
    ELSE IF is_relative_to(path, home_dir)
    THEN \E i \in 1..Len(path) : part(path[i]) \in _protected_hidden
    ELSE \E protected_path \in _core_protected : is_relative_to(path, protected_path)

(* os.access(path, os.R_OK | os.W_OK) *)
os_access(path) == path \notin scenario.no_access

validate_directory_access(path, force) ==
    IF force THEN TRUE
    ELSE /\ exists(path)
         /\ is_dir(path)
         /\ os_access(path)
         /\ is_allowed(path, scenario.allowed_paths)

----------------------------------------------------------------------------
(* organize_many_dirs *)

(* The command starts: the requested paths are validated and the invalid
   ones skipped (none valid: typer.Exit(1)), the rule set is loaded, the
   totals are zero. *)
StartOrganize ==
    /\ pc = "idle"
    /\ step_no < Len(scenario.plan)
    /\ scenario.plan[step_no + 1] \in {"organize", "dry"}
    /\ LET valid_paths ==
               SelectSeq(scenario.paths,
                         LAMBDA path : validate_directory_access(path, scenario.force))
           cmd == scenario.plan[step_no + 1]
       IN  /\ run' = [NoRun EXCEPT !.dry_run = (cmd = "dry"),
                                   !.valid_paths = valid_paths,
                                   !.i = 1]
           /\ IF valid_paths = << >>
              THEN /\ pc' = "idle"
                   /\ step_no' = step_no + 1
                   /\ obs' = [obs EXCEPT
                                !.before = Snapshot, !.status = "invalid", !.cmd = cmd,
                                !.done = Append(@, [cmd |-> cmd, status |-> "invalid"])]
              ELSE /\ pc' = "construct"
                   /\ obs' = [obs EXCEPT !.before = Snapshot, !.status = "running",
                                         !.cmd = cmd, !.yielded = 0, !.moves = << >>]
                   /\ UNCHANGED step_no
    /\ now' = now + 1
    /\ org' = NoOrganizer /\ gen' = NoGen /\ cur' = NoFile
    /\ UNCHANGED <<files, dirs, logs, scenario, faults, und>>

(* LocalFileOrganizer(directory_path, ...) for the i-th directory, and the
   first listing of organize().  The call passes no include_hidden, which
   keeps the default of the constructor. The history file of the first directory is
   new; a later directory continues the newest one. *)
Construct ==
    /\ pc = "construct"
    /\ LET dir_path         == run.valid_paths[run.i]
           new_history_file == run.i = 1
           last_dir         == run.i = Len(run.valid_paths)
       IN  IF ~new_history_file /\ ~HasHistory
           THEN \* get_last_history raises typer.Exit(0)
                /\ Finish("exit")
                /\ UNCHANGED <<logs, org, gen>>
           ELSE LET path == IF new_history_file THEN now ELSE get_last_history
                IN  /\ org' = [NoOrganizer EXCEPT
                                !.dir_path = dir_path,
                                !.dry_run = run.dry_run,
                                !.recursive = scenario.recursive,
                                !.iteration_depth = scenario.iteration_depth,
                                !.new_history_file = new_history_file,
                                !.last_dir = last_dir,
                                !.history_file_path = path]
                    /\ logs' = IF WritesHeader(run.dry_run, new_history_file)
                               THEN WithLog(path, write_one_line(ContentOf(path), "["))
                               ELSE logs
                    /\ gen' = [NoGen EXCEPT !.at = dir_path, !.entries = iterdir(dir_path)]
                    /\ pc' = "next"
                    /\ UNCHANGED <<step_no, obs>>
    /\ UNCHANGED <<files, dirs, now, scenario, faults, run, cur, und>>

(* The generator yields a file; _iterate_files categorizes it. *)
NextFile ==
    /\ pc = "next"
    /\ \E f \in NextUp :
         /\ ~MissingName(org.suffix_to_category_mapping, name(f).suf, files[f].size)
         /\ LET c == _categorize_file(org.suffix_to_category_mapping,
                                      name(f).suf, files[f].size)
                destination_path == joinpath(parent(f), DirName(c.destination_dir))
            IN  /\ gen' = [gen EXCEPT !.entries = @ \ {f}, !.yielded = TRUE]
             /\ org' = [org EXCEPT !.suffix_to_category_mapping = c.mapping]
             /\ cur' = [NoFile EXCEPT !.file = f,
                                      !.destination_path = destination_path,
                                      !.target_path = joinpath(destination_path, name(f))]
             /\ obs' = [obs EXCEPT !.yielded = @ + 1,
                                   !.categorized = @ \cup
                          {[suffix |-> name(f).suf, size |-> files[f].size,
                            destination_dir |-> c.destination_dir]}]
    /\ pc' = "create_dir"
    /\ UNCHANGED <<files, dirs, logs, now, scenario, faults, step_no, run, und>>

(* The generator yields a file whose variant has no name: typer.Exit(1)
   leaves _iterate_files, organize() and organize_many_dirs. *)
BadVariant ==
    /\ pc = "next"
    /\ \E f \in NextUp :
         /\ MissingName(org.suffix_to_category_mapping, name(f).suf, files[f].size)
         /\ pc' = "idle"
         /\ step_no' = step_no + 1
         /\ obs' = [obs EXCEPT
                      !.status = "abort",
                      !.done = Append(@, [cmd |-> obs.cmd, status |-> "abort"]),
                      !.aborted = @ \cup {[suffix |-> name(f).suf, size |-> files[f].size]}]
    /\ UNCHANGED <<files, dirs, logs, now, scenario, faults, run, org, gen, cur, und>>

(* rglob: the listing of the current directory is used up, the walk goes on
   to the next directory. *)
GenDescend ==
    /\ pc = "next"
    /\ Candidates = {}
    /\ ToVisit # << >>
    /\ LET top == Len(ToVisit)
       IN  \E d \in ToVisit[top] :
             gen' = [gen EXCEPT !.at = d, !.entries = iterdir(d),
                                !.stack = [ToVisit EXCEPT ![top] = @ \ {d}]]
    /\ UNCHANGED <<files, dirs, logs, now, scenario, faults, step_no, pc, run, org, cur, und, obs>>

(* The generator is exhausted before it yielded anything: organize() raises
   typer.Exit(0), which ends the command. *)
NoFiles ==
    /\ pc = "next"
    /\ Exhausted
    /\ ~gen.yielded
    /\ Finish("exit")
    /\ UNCHANGED <<files, dirs, logs, now, scenario, faults, run, org, gen, cur, und>>

(* _create_dir *)
CreateDir ==
    /\ pc = "create_dir"
    /\ IF NeedsDir(cur.destination_path)
       THEN /\ dirs' = IF org.dry_run THEN dirs ELSE dirs \cup {cur.destination_path}
            /\ org' = [org EXCEPT
                        !.created_dirs = @ \cup {cur.destination_path},
                        !.created_dir_count = @ + 1,
                        !.batch_entries =
                            IF org.dry_run THEN @
                            ELSE Append(@, create_dir_entry(cur.destination_path))]
       ELSE UNCHANGED <<dirs, org>>
    /\ pc' = "move_file"
    /\ UNCHANGED <<files, logs, now, scenario, faults, step_no, run, gen, cur, und, obs>>

Moved_swapped(target_path) ==
    [org EXCEPT !.moved_files_count = @ + 1,
                !.batch_entries = Append(@, move_file_entry(cur.file, target_path))]

Moved(target_path) ==
    [org EXCEPT !.moved_files_count = @ + 1,
                !.batch_entries = Append(@, move_file_entry(target_path, cur.file))]
(* target_path is the destination path chosen for the file at hand *)
Chosen(target_path) ==
    [obs EXCEPT !.chosen = @ \cup {[id |-> files[cur.file].id, path |-> target_path]}]
(* what the file system did: the file went from original_path to new_path *)
Relocated(target_path) ==
    [Chosen(target_path) EXCEPT
        !.moves = Append(@, [new_path |-> target_path, original_path |-> cur.file])]
Failed_and_moved == [org EXCEPT !.errors_count = @ + 1, !.moved_files_count = @ + 1]
Failed == [org EXCEPT !.errors_count = @ + 1]

FaultKinds == {"cross_device", "no_space", "read_only_source"}

(* _move_file: pick the target, then rename (or only count, in a dry run).
   A rename that raises OSError leads to the copy-then-delete fallback. *)
MoveFile ==
    /\ pc = "move_file"
    /\ LET target_path == TargetFor(cur.destination_path, name(cur.file))
       IN  \/ /\ org.dry_run
              /\ org' = [org EXCEPT !.moved_files_count = @ + 1]
              /\ cur' = [cur EXCEPT !.target_path = target_path]
              /\ pc' = "flush"
              /\ UNCHANGED <<files, faults, obs>>
           \/ /\ ~org.dry_run
              /\ is_dir(cur.destination_path)
              /\ files' = Rename(files, cur.file, target_path)
              /\ org' = Moved(target_path)
              /\ obs' = Relocated(target_path)
              /\ cur' = [cur EXCEPT !.target_path = target_path]
              /\ pc' = "flush"
              /\ UNCHANGED faults
           \/ /\ ~org.dry_run
              /\ ~is_dir(cur.destination_path)
              \* the destination name is taken by a regular file: rename and
              \* copy2 both raise, the outer handler counts the error
              /\ org' = Failed
              /\ cur' = [cur EXCEPT !.target_path = target_path]
              /\ pc' = "flush"
              /\ UNCHANGED <<files, faults, obs>>
           \/ /\ ~org.dry_run
              /\ is_dir(cur.destination_path)
              /\ faults < scenario.max_faults
              /\ \E kind \in FaultKinds :
                   cur' = [cur EXCEPT !.target_path = target_path, !.fault = kind]
              /\ faults' = faults + 1
              /\ obs' = Chosen(target_path)
              /\ pc' = "fallback"
              /\ UNCHANGED <<files, org>>
    /\ UNCHANGED <<dirs, logs, now, scenario, step_no, run, gen, und>>

(* except OSError: shutil.copy2(original_path, target_path) *)
FallbackCopy ==
    /\ pc = "fallback"
    /\ IF cur.fault = "no_space"
       THEN /\ org' = Failed
            /\ pc' = "flush"
            /\ UNCHANGED files
       ELSE /\ files' = Copy(files, cur.file, cur.target_path)
            /\ pc' = "unlink"
            /\ UNCHANGED org
    /\ UNCHANGED <<dirs, logs, now, scenario, faults, step_no, run, gen, cur, und, obs>>

(* original_path.unlink(), then the entry is recorded and the move counted *)
UnlinkOriginal ==
    /\ pc = "unlink"
    /\ IF cur.fault = "read_only_source"
       THEN /\ org' = Failed
            /\ UNCHANGED <<files, obs>>
       ELSE /\ files' = Unlink(files, cur.file)
            /\ org' = Moved(cur.target_path)
            /\ obs' = Relocated(cur.target_path)
    /\ pc' = "flush"
    /\ UNCHANGED <<dirs, logs, now, scenario, faults, step_no, run, gen, cur, und>>

(* _flush_batch, when the batch is full and the run is real *)
Flush ==
    /\ pc = "flush"
    /\ IF BatchFull(org.batch_entries) /\ ~org.dry_run
       THEN /\ logs' = WithLog(org.history_file_path,
                               write_entries(ContentOf(org.history_file_path),
                                             org.batch_entries, org.first_entry))
            /\ org' = [org EXCEPT !.first_entry = FALSE, !.batch_entries = << >>]
       ELSE UNCHANGED <<logs, org>>
    /\ pc' = "next"
    /\ cur' = NoFile
    /\ UNCHANGED <<files, dirs, now, scenario, faults, step_no, run, gen, und, obs>>

(* _finalize_history: the remaining entries, then the closing bracket of the
   last directory or the continuation comma of an earlier one *)
_finalize_history(content) ==
    write_one_line(write_entries(content, org.batch_entries, org.first_entry),
                   IF org.last_dir THEN "]" ELSE ",")

(* The loop of _iterate_files ends; organize() finalizes the history. *)
EndOfFiles ==
    /\ pc = "next"
    /\ Exhausted
    /\ gen.yielded
    /\ IF Finalizes(org.batch_entries, org.dry_run)
       THEN /\ logs' = WithLog(org.history_file_path,
                               _finalize_history(ContentOf(org.history_file_path)))
            /\ org' = [org EXCEPT !.batch_entries = << >>]
       ELSE UNCHANGED <<logs, org>>
    /\ pc' = "clean"
    /\ UNCHANGED <<files, dirs, now, scenario, faults, step_no, run, gen, cur, und, obs>>

(* Back in organize_many_dirs: add the organizer's stats to the totals, clean
   the empty directories of a real run, go on to the next directory or
   display the final results. *)
RemovesEmptyDirs(dry_run) == ~dry_run

AfterOrganize ==
    /\ pc = "clean"
    /\ LET removed == IF RemovesEmptyDirs(run.dry_run)
                      THEN EmptySubDirs(org.dir_path) ELSE {}
           totals  == [run EXCEPT
                        !.total_moved = @ + org.moved_files_count,
                        !.total_created_dirs =
                            @ + org.created_dir_count + Cardinality(removed),
                        !.total_errors = @ + org.errors_count]
       IN  /\ dirs' = dirs \ removed
           /\ IF run.i < Len(run.valid_paths)
              THEN /\ run' = [totals EXCEPT !.i = @ + 1]
                   /\ pc' = "construct"
                   /\ UNCHANGED <<step_no, obs>>
              ELSE /\ run' = totals
                   /\ pc' = "idle"
                   /\ step_no' = step_no + 1
                   /\ obs' = [obs EXCEPT
                                !.status = "ok",
                                !.done = Append(@, [cmd |-> obs.cmd, status |-> "ok"]),
                                !.report[obs.cmd] =
                                    [moved |-> totals.total_moved,
                                     created |-> totals.total_created_dirs,
                                     errors |-> totals.total_errors]]
    /\ UNCHANGED <<files, logs, now, scenario, faults, org, gen, cur, und>>

----------------------------------------------------------------------------
(* The undo command *)

(* stream_history_file: the items of the top-level array, one by one, until
   the text stops being a JSON array (the parser's error ends the stream and
   is swallowed; the items read before it have been yielded). *)
RECURSIVE Items(_, _, _)
Items(content, i, expect) ==
    IF i > Len(content) THEN << >>
    ELSE LET t == content[i].tok
         IN  CASE expect = "open"  /\ t = "["     -> Items(content, i + 1, "item_or_close")
               [] expect \in {"item", "item_or_close"} /\ t = "entry"
                                                  -> << content[i].entry >>
                                                       \o Items(content, i + 1, "comma_or_close")
               [] expect = "comma_or_close" /\ t = "," -> Items(content, i + 1, "item")
               [] OTHER -> << >>

stream_history_file(content) == Items(content, 1, "open")

(* undo_files, the decision on one entry *)
Eligible(history)   == history.status = "success"
MovesBack_without_destination_check(history) ==
    /\ history.action = "move_file"
    /\ exists(history.source)

MovesBack(history)  ==
    /\ history.action = "move_file"
    /\ exists(history.source)
    /\ ~exists(history.destination)

(* undo(): get_last_history, then undo_files reads the whole history *)
StartUndo ==
    /\ pc = "idle"
    /\ step_no < Len(scenario.plan)
    /\ scenario.plan[step_no + 1] = "undo"
    /\ now' = now + 1
    /\ IF ~HasHistory
       THEN /\ pc' = "idle"
            /\ step_no' = step_no + 1
            /\ obs' = [obs EXCEPT !.before = Snapshot, !.status = "exit", !.cmd = "undo",
                                  !.done = Append(@, [cmd |-> "undo", status |-> "exit"]),
                                  !.removed = << >>, !.moved_back = {}]
            /\ und' = NoUndo
       ELSE /\ und' = [NoUndo EXCEPT
                        !.all_history = stream_history_file(logs[get_last_history]),
                        !.idx = 1]
            /\ pc' = "undo_files"
            /\ obs' = [obs EXCEPT !.before = Snapshot, !.status = "running", !.cmd = "undo",
                                  !.removed = << >>, !.moved_back = {}]
            /\ UNCHANGED step_no
    /\ UNCHANGED <<files, dirs, logs, scenario, faults, run, org, gen, cur>>

(* One iteration of the loop of undo_files *)
UndoEntry ==
    /\ pc = "undo_files"
    /\ und.idx <= Len(und.all_history)
    /\ LET history == und.all_history[und.idx]
       IN  IF ~Eligible(history)
           THEN /\ und' = [und EXCEPT !.idx = @ + 1]
                /\ UNCHANGED <<files, obs>>
           ELSE IF history.action = "move_file"
           THEN IF MovesBack(history)
                THEN IF is_dir(parent(history.destination))
                     THEN /\ files' = Rename(files, history.source, history.destination)
                          /\ und' = [und EXCEPT !.idx = @ + 1, !.moved_back_count = @ + 1]
                          /\ obs' = [obs EXCEPT !.moved_back = @ \cup {und.idx}]
                     ELSE \* rename raises: the directory of the original is gone
                          /\ und' = [und EXCEPT !.idx = @ + 1, !.errors_count = @ + 1]
                          /\ UNCHANGED <<files, obs>>
                ELSE /\ und' = [und EXCEPT !.idx = @ + 1]
                     /\ UNCHANGED <<files, obs>>
           ELSE IF history.action = "create_dir"
           THEN /\ und' = [und EXCEPT !.idx = @ + 1,
                                      !.dirs_path = Append(@, history.path)]
                /\ UNCHANGED <<files, obs>>
           ELSE /\ und' = [und EXCEPT !.idx = @ + 1]
                /\ UNCHANGED <<files, obs>>
    /\ UNCHANGED <<dirs, logs, now, scenario, faults, step_no, pc, run, org, gen, cur>>

(* remove_dirs(dirs_path=...): the list is walked in reversed order; the
   positions of dirs_path in the order they are handled *)
RemovalOrder_forward(dirs_path) ==
    [i \in 1..Len(dirs_path) |-> i]

RemovalOrder(dirs_path) ==
    [i \in 1..Len(dirs_path) |-> Len(dirs_path) - i + 1]
(* rmdir succeeds on an empty directory *)
CanRmdir(dir_path) == is_dir(dir_path) /\ iterdir(dir_path) = {}

(* undo_files returns; undo() calls remove_dirs when directories were collected *)
UndoFilesDone ==
    /\ pc = "undo_files"
    /\ und.idx > Len(und.all_history)
    /\ IF und.dirs_path # << >>
       THEN /\ und' = [und EXCEPT !.todo = RemovalOrder(und.dirs_path)]
            /\ pc' = "remove_dirs"
            /\ UNCHANGED <<step_no, obs>>
       ELSE /\ Finish("ok")
            /\ UNCHANGED und
    /\ UNCHANGED <<files, dirs, logs, now, scenario, faults, run, org, gen, cur>>

RemoveDir ==
    /\ pc = "remove_dirs"
    /\ und.todo # << >>
    /\ LET dir_path == und.dirs_path[Head(und.todo)]
       IN  IF ~exists(dir_path)
           THEN /\ und' = [und EXCEPT !.todo = Tail(@)]
                /\ UNCHANGED <<dirs, obs>>
           ELSE IF CanRmdir(dir_path)
           THEN /\ dirs' = dirs \ {dir_path}
                /\ und' = [und EXCEPT !.todo = Tail(@),
                                      !.removed_dirs_count = @ + 1]
                /\ obs' = [obs EXCEPT !.removed = Append(@, Head(und.todo))]
           ELSE /\ und' = [und EXCEPT !.todo = Tail(@),
                                      !.dirs_errors_count = @ + 1]
                /\ UNCHANGED <<dirs, obs>>
    /\ UNCHANGED <<files, logs, now, scenario, faults, step_no, pc, run, org, gen, cur>>

RemoveDirsDone ==
    /\ pc = "remove_dirs"
    /\ und.todo = << >>
    /\ Finish("ok")
    /\ UNCHANGED <<files, dirs, logs, now, scenario, faults, run, org, gen, cur, und>>

----------------------------------------------------------------------------
(* Initial states: a directory layout, the options of the command line and
   the commands the operator runs one after the other *)

D1 == << DirName("D1") >>
D2 == << DirName("D2") >>

HalfMb == BytesPerMb \div 2
TwoMb  == 2 * BytesPerMb
FourMb == 4 * BytesPerMb

File(path, id, size) == [path |-> path, id |-> id, size |-> size]

(* Hand-sized layouts are drawn from these files and directories *)
UniverseFiles ==
    { File(joinpath(D1, Name("a", ".jpg")), 1, HalfMb),
      File(joinpath(D1, Name("b", ".jpg")), 2, TwoMb),
      File(joinpath(D1, Name("Other", "")), 3, HalfMb),
      File(joinpath(joinpath(D1, DirName("small-Images")), Name("a", ".jpg")), 4, HalfMb),
      File(joinpath(joinpath(D1, DirName("sub")), Name("a", ".jpg")), 5, TwoMb),
      File(joinpath(D2, Name("d", ".txt")), 6, HalfMb) }

OptionalDirs == { joinpath(D1, DirName("small-Images")), joinpath(D1, DirName("empty")) }

FileTable(S) ==
    [p \in {f.path : f \in S} |->
        LET f == CHOOSE g \in S : g.path = p IN [id |-> f.id, size |-> f.size]]

SmallLayouts ==
    { [files |-> FileTable(S),
       dirs  |-> {D1, D2} \cup {parent(f.path) : f \in S} \cup E] :
         S \in {T \in SUBSET UniverseFiles : Cardinality(T) <= MaxSmallFiles},
         E \in SUBSET OptionalDirs }

(* Collision layouts: D1/a.jpg, and in D1/small-Images any of a.jpg, a_1.jpg,
   a_2.jpg, ... *)
Taken(k) ==
    File(joinpath(joinpath(D1, DirName("small-Images")),
                  Name(IF k = 0 THEN "a" ELSE "a_" \o ToString(k), ".jpg")),
         IF k = 0 THEN 4 ELSE 6 + k, HalfMb)

CollisionLayouts ==
    { [files |-> FileTable({File(joinpath(D1, Name("a", ".jpg")), 1, HalfMb)}
                           \cup {Taken(k) : k \in K}),
       dirs  |-> {D1, D2, joinpath(D1, DirName("small-Images"))}] :
         K \in SUBSET (0..MaxCollisions) }

(* Bulk layouts: n files in D1, text files but (when mixed) the last, an image *)
BulkFiles(n, mixed, m) ==
    { File(joinpath(D1, Name("f" \o ToString(i),
                             IF mixed /\ i = n THEN ".jpg" ELSE ".txt")), i, HalfMb) :
        i \in 1..n }
    \cup { File(joinpath(D2, Name("g" \o ToString(i), ".txt")), 0, HalfMb) : i \in 1..m }

BulkLayouts ==
    { [files |-> FileTable(BulkFiles(n, mixed, m)), dirs |-> {D1, D2}] :
        n \in (BATCH_SIZE - 2)..MaxBulkFiles, mixed \in BOOLEAN, m \in 0..1 }

SmallScenarios ==
    { [paths |-> ps, recursive |-> o.r, iteration_depth |-> o.d, plan |-> pl,
       max_faults |-> MaxFaults, force |-> FALSE, include_hidden |-> FALSE, allowed_paths |-> {D1, D2},
       no_access |-> {}] :
        ps \in { <<D1>>, <<D1, D2>> },
        o \in { [r |-> FALSE, d |-> -1], [r |-> TRUE, d |-> -1], [r |-> TRUE, d |-> 0] },
        pl \in { <<"organize", "undo", "undo">>, <<"dry", "organize", "undo">> } }

BulkScenarios ==
    { [paths |-> ps, recursive |-> FALSE, iteration_depth |-> -1,
       plan |-> <<"organize", "undo">>, max_faults |-> 0, force |-> FALSE, include_hidden |-> FALSE,
       allowed_paths |-> {D1, D2}, no_access |-> {}] : ps \in { <<D1>>, <<D1, D2>> } }

CollisionScenarios ==
    { [paths |-> <<D1>>, recursive |-> r, iteration_depth |-> -1,
       plan |-> <<"organize", "undo", "undo">>, max_faults |-> MaxFaults,
       force |-> FALSE, include_hidden |-> FALSE, allowed_paths |-> {D1, D2}, no_access |-> {}] :
        r \in BOOLEAN }

(* Archive layouts: .zip files whose category has a variant without a name:
   x.zip is in the band of the named variant before it, y.zip only in the
   nameless one, z.zip in none; and a file of another category *)
ArchiveLayouts ==
    { [files |-> FileTable(S), dirs |-> {D1, D2}] :
        S \in SUBSET { File(joinpath(D1, Name("x", ".zip")), 1, HalfMb),
                       File(joinpath(D1, Name("y", ".zip")), 2, TwoMb),
                       File(joinpath(D1, Name("z", ".zip")), 3, FourMb),
                       File(joinpath(D1, Name("a", ".jpg")), 4, HalfMb) } \ {{}} }

ArchiveScenario ==
    [paths |-> <<D1>>, recursive |-> FALSE, iteration_depth |-> -1,
     plan |-> <<"organize", "undo">>, max_faults |-> 0, force |-> FALSE, include_hidden |-> FALSE,
     allowed_paths |-> {D1, D2}, no_access |-> {}]

(* Name layouts: a file whose suffix is in upper case, a file whose name
   begins with a dot, and a plain one *)
NameLayouts ==
    { [files |-> FileTable(S), dirs |-> {D1, D2}] :
        S \in SUBSET { File(joinpath(D1, Name("c", ".JPG")), 1, HalfMb),
                       File(joinpath(D1, Name(".h", ".txt")), 2, HalfMb),
                       File(joinpath(D1, Name("e", ".txt")), 3, HalfMb) } \ {{}} }

NameScenarios ==
    { [paths |-> <<D1>>, recursive |-> FALSE, iteration_depth |-> -1,
       plan |-> <<"organize", "undo">>, max_faults |-> 0, force |-> FALSE,
       include_hidden |-> h, allowed_paths |-> {D1, D2}, no_access |-> {}] :
        h \in BOOLEAN }

(* Guard layouts: D1 is on the allow-list and holds a file; beside it a
   directory that is not on the list, one without read/write permission, a
   regular file, and a name that does not exist *)
D3      == << DirName("D3") >>
Locked  == << DirName("locked") >>
Plain   == << Name("plain", ".txt") >>
Missing == << DirName("missing") >>

GuardLayout ==
    [files |-> FileTable({ File(joinpath(D1, Name("a", ".jpg")), 1, HalfMb),
                           File(joinpath(D3, Name("c", ".txt")), 2, HalfMb),
                           File(Plain, 3, HalfMb) }),
     dirs  |-> {D1, D2, D3, Locked}]

GuardScenarios ==
    { [paths |-> ps, recursive |-> FALSE, iteration_depth |-> -1,
       plan |-> <<"organize", "undo">>, max_faults |-> 0, force |-> f, include_hidden |-> FALSE,
       allowed_paths |-> {D1, D2}, no_access |-> {Locked}] :
        ps \in UNION { { <<D1, x>>, <<x, D1>>, <<x>> } : x \in {D3, Locked, Plain, Missing} },
        f \in BOOLEAN }

NoLogs  == [t \in {} |-> << >>]
OldLogs == [t \in {0} |-> << Tok("[") >>]

Init ==
    /\ \/ \E l \in SmallLayouts :
            /\ files = l.files /\ dirs = l.dirs
            /\ scenario \in SmallScenarios
            /\ logs \in IF scenario.plan[1] = "dry" THEN {NoLogs, OldLogs} ELSE {OldLogs}
       \/ \E l \in CollisionLayouts :
            /\ files = l.files /\ dirs = l.dirs
            /\ scenario \in CollisionScenarios
            /\ logs = OldLogs
       \/ \E l \in ArchiveLayouts :
            /\ files = l.files /\ dirs = l.dirs
            /\ scenario = ArchiveScenario
            /\ logs = OldLogs
       \/ \E l \in NameLayouts :
            /\ files = l.files /\ dirs = l.dirs
            /\ scenario \in NameScenarios
            /\ logs = OldLogs
       \/ /\ files = GuardLayout.files /\ dirs = GuardLayout.dirs
          /\ scenario \in GuardScenarios
          /\ logs = OldLogs
       \/ \E l \in BulkLayouts :
            /\ files = l.files /\ dirs = l.dirs
            /\ scenario \in BulkScenarios
            /\ logs = NoLogs
    /\ now = 0
    /\ faults = 0
    /\ step_no = 0
    /\ pc = "idle"
    /\ run = NoRun /\ org = NoOrganizer /\ gen = NoGen /\ cur = NoFile /\ und = NoUndo
    /\ obs = [orig |-> [files |-> files, dirs |-> dirs, logs |-> logs],
              before |-> [files |-> files, dirs |-> dirs, logs |-> logs],
              status |-> "none", cmd |-> "none", done |-> << >>,
              report |-> [organize |-> NoReport, dry |-> NoReport],
              categorized |-> {}, aborted |-> {}, yielded |-> 0, moves |-> << >>, chosen |-> {}, removed |-> << >>, moved_back |-> {}]

Next ==
    \/ StartOrganize
    \/ Construct
    \/ NextFile
    \/ BadVariant
    \/ GenDescend
    \/ NoFiles
    \/ CreateDir
    \/ MoveFile
    \/ FallbackCopy
    \/ UnlinkOriginal
    \/ Flush
    \/ EndOfFiles
    \/ AfterOrganize
    \/ StartUndo
    \/ UndoEntry
    \/ UndoFilesDone
    \/ RemoveDir
    \/ RemoveDirsDone

Spec == Init /\ [][Next]_vars

----------------------------------------------------------------------------
(* The undo command on its own: the newest history file is an input, and so
   is the directory tree, which may have changed since the history was
   written. *)

Docs    == joinpath(D1, DirName("Docs"))
OldDocs == joinpath(Docs, DirName("old"))
Sub     == joinpath(D1, DirName("sub"))

Failed_(entry) == [entry EXCEPT !.status = "failed"]

HistoryEntries ==
    { move_file_entry(joinpath(Docs, Name("x", ".txt")), joinpath(D1, Name("x", ".txt"))),
      Failed_(move_file_entry(joinpath(Docs, Name("x", ".txt")), joinpath(D1, Name("x", ".txt")))),
      move_file_entry(joinpath(Docs, Name("z", ".txt")), joinpath(Sub, Name("z", ".txt"))),
      create_dir_entry(Docs),
      create_dir_entry(OldDocs),
      create_dir_entry(Sub),
      Failed_(create_dir_entry(Docs)) }

Histories ==
    { h \in UNION { [1..n -> HistoryEntries] : n \in 0..MaxHistory } :
        \A i, j \in DOMAIN h : h[i] = h[j] => i = j }

UndoFiles ==
    { File(joinpath(Docs, Name("x", ".txt")), 1, HalfMb),
      File(joinpath(D1, Name("x", ".txt")), 2, TwoMb),
      File(joinpath(Docs, Name("z", ".txt")), 3, HalfMb),
      File(joinpath(Sub, Name("z", ".txt")), 4, TwoMb) }

UndoLayouts ==
    { [files |-> FileTable(S), dirs |-> {D1, D2} \cup E] :
        S \in SUBSET UndoFiles, E \in SUBSET {Docs, OldDocs, Sub} }

UndoScenario ==
    [paths |-> <<D1>>, recursive |-> FALSE, iteration_depth |-> -1,
     plan |-> <<"undo">>, max_faults |-> 0, force |-> FALSE, include_hidden |-> FALSE,
     allowed_paths |-> {D1, D2}, no_access |-> {}]

InitUndo ==
    /\ \E l \in UndoLayouts :
         /\ \A p \in DOMAIN l.files \cup l.dirs : Len(p) > 1 => parent(p) \in l.dirs
         /\ files = l.files /\ dirs = l.dirs
    /\ \E h \in Histories, sealed \in BOOLEAN :
         logs = [t \in {0} |->
                   LET content == write_entries(write_one_line(<< >>, "["), h, TRUE)
                   IN  IF sealed THEN write_one_line(content, "]") ELSE content]
    /\ scenario = UndoScenario
    /\ now = 0
    /\ faults = 0
    /\ step_no = 0
    /\ pc = "idle"
    /\ run = NoRun /\ org = NoOrganizer /\ gen = NoGen /\ cur = NoFile /\ und = NoUndo
    /\ obs = [orig |-> [files |-> files, dirs |-> dirs, logs |-> logs],
              before |-> [files |-> files, dirs |-> dirs, logs |-> logs],
              status |-> "none", cmd |-> "none", done |-> << >>,
              report |-> [organize |-> NoReport, dry |-> NoReport],
              categorized |-> {}, aborted |-> {}, yielded |-> 0, moves |-> << >>, chosen |-> {}, removed |-> << >>, moved_back |-> {}]

NextUndo ==
    \/ StartUndo
    \/ UndoEntry
    \/ UndoFilesDone
    \/ RemoveDir
    \/ RemoveDirsDone

SpecUndo == InitUndo /\ [][NextUndo]_vars

----------------------------------------------------------------------------
(* The SystemProtector on its own: a path and an allow-list are the inputs,
   is_allowed and is_protected are applied to them. *)

GuardNames ==
    { DirName("home"), DirName("user"), DirName("Documents"), DirName(".ssh"),
      DirName("etc"), DirName("data") }

GuardPaths == UNION { [1..n -> GuardNames] : n \in 0..MaxPathLen }

AllowLists ==
    SUBSET { home_dir, << DirName("home") >>, joinpath(home_dir, DirName("Documents")),
             << DirName("data") >> }

(* a result not computed yet is the empty sequence, a computed one <<result>> *)
Unknown == << >>

InitGuard ==
    /\ scenario \in { [paths |-> <<p>>, recursive |-> FALSE, iteration_depth |-> -1,
                        plan |-> << >>, max_faults |-> 0, force |-> FALSE, include_hidden |-> FALSE,
                        allowed_paths |-> A, no_access |-> {}] :
                          p \in GuardPaths, A \in AllowLists }
    /\ obs = [is_allowed |-> Unknown, is_protected |-> Unknown]
    /\ files = FileTable({}) /\ dirs = {} /\ logs = NoLogs
    /\ now = 0
    /\ faults = 0
    /\ step_no = 0
    /\ pc = "idle"
    /\ run = NoRun /\ org = NoOrganizer /\ gen = NoGen /\ cur = NoFile /\ und = NoUndo

IsAllowed ==
    /\ obs.is_allowed = Unknown
    /\ obs' = [obs EXCEPT !.is_allowed = << is_allowed(scenario.paths[1], scenario.allowed_paths) >>]
    /\ UNCHANGED <<files, dirs, logs, now, scenario, faults, step_no, pc, run, org, gen,
                   cur, und>>

IsProtected ==
    /\ obs.is_protected = Unknown
    /\ obs' = [obs EXCEPT !.is_protected = << is_protected(scenario.paths[1]) >>]
    /\ UNCHANGED <<files, dirs, logs, now, scenario, faults, step_no, pc, run, org, gen,
                   cur, und>>

NextGuard ==
    \/ IsAllowed
    \/ IsProtected

SpecGuard == InitGuard /\ [][NextGuard]_vars

----------------------------------------------------------------------------
(* validate_glob_pattern.  A pattern is the sequence of its characters; the
   user's answers to typer.confirm are chosen when the prompt is shown. *)

PatternChars == {"*", "?", "[", "]", "/", "\\", ":", "a", " "}
Patterns     == UNION { [1..n -> PatternChars] : n \in 0..MaxPatternLen }

Str2(a, b)    == << a, b >>
Str3(a, b, c) == << a, b, c >>

(* str.count(ch), for a single character *)
count(pattern, ch) == Cardinality({i \in 1..Len(pattern) : pattern[i] = ch})
(* sub in pattern *)
OccursAt(pattern, sub, i) ==
    /\ i + Len(sub) - 1 <= Len(pattern)
    /\ \A k \in 1..Len(sub) : pattern[i + k - 1] = sub[k]
contains(sub, pattern) == \E i \in 1..Len(pattern) : OccursAt(pattern, sub, i)
startswith(pattern, sub) == OccursAt(pattern, sub, 1)
endswith(pattern, sub) ==
    Len(sub) <= Len(pattern) /\ OccursAt(pattern, sub, Len(pattern) - Len(sub) + 1)

(* str.replace(old, ""): the occurrences of old are removed, left to right,
   without overlap *)
RECURSIVE remove(_, _)
remove(pattern, old) ==
    IF pattern = << >> THEN << >>
    ELSE IF OccursAt(pattern, old, 1)
         THEN remove(SubSeq(pattern, Len(old) + 1, Len(pattern)), old)
         ELSE << Head(pattern) >> \o remove(Tail(pattern), old)

(* str.strip(): leading and trailing whitespace removed *)
RECURSIVE lstrip(_)
lstrip(pattern) ==
    IF pattern # << >> /\ Head(pattern) = " " THEN lstrip(Tail(pattern)) ELSE pattern
RECURSIVE rstrip(_)
rstrip(pattern) ==
    IF pattern # << >> /\ pattern[Len(pattern)] = " "
    THEN rstrip(SubSeq(pattern, 1, Len(pattern) - 1)) ELSE pattern
strip(pattern) == rstrip(lstrip(pattern))

(* _validate_input: the conditions of its two tests *)
EmptyPattern(pattern) == pattern = << >> \/ strip(pattern) = << >>
CatchAll(pattern)     == strip(pattern) = << "*" >>

(* _validate_syntax_structure: the pattern alphabet has no braces, so their
   counts are equal *)
UnbalancedBrackets(pattern) == count(pattern, "[") # count(pattern, "]")
BadRecursiveWildcard(pattern) ==
    /\ contains(Str2("*", "*"), pattern)
    /\ ~ \/ startswith(pattern, Str2("*", "*"))
         \/ contains(Str3("/", "*", "*"), pattern)
         \/ endswith(pattern, Str3("/", "*", "*"))

(* _is_likely_intentional *)
_is_likely_intentional(pattern) ==
    \/ count(pattern, "[") > 1
    \/ count(pattern, "]") > 1
    \/ contains(Str3("[", "[", "]"), pattern)
    \/ contains(Str3("[", "]", "]"), pattern)
    \/ startswith(pattern, Str2("[", "["))
    \/ endswith(pattern, Str2("]", "]"))

(* _check_practical_issues: the conditions of its three warnings *)
LiteralBrackets(pattern) ==
    /\ contains(Str3("[", "*", "]"), pattern) \/ contains(Str3("[", "?", "]"), pattern)
    /\ ~_is_likely_intentional(pattern)
DoubleSlashes(pattern) == contains(Str2("/", "/"), remove(pattern, Str3(":", "/", "/")))
Backslashes(pattern)   == contains(<< "\\" >>, pattern) /\ ~contains(<< "/" >>, pattern)

(* if not typer.confirm(...): raise typer.Exit(1) *)
AfterReply_goes_on(reply, next) == next
AfterReply(reply, next) == IF reply THEN next ELSE "exit"

NoAnswers == [prompts |-> << >>, warnings |-> << >>]

InitPattern ==
    /\ scenario \in { [pattern |-> p] : p \in Patterns }
    /\ obs = NoAnswers
    /\ pc = "input"
    /\ files = FileTable({}) /\ dirs = {} /\ logs = NoLogs
    /\ now = 0
    /\ faults = 0
    /\ step_no = 0
    /\ run = NoRun /\ org = NoOrganizer /\ gen = NoGen /\ cur = NoFile /\ und = NoUndo

(* _validate_input *)
ValidateInput ==
    /\ pc = "input"
    /\ IF EmptyPattern(scenario.pattern)
       THEN pc' = "exit" /\ UNCHANGED obs
       ELSE /\ pc' = "syntax"
            /\ obs' = IF CatchAll(scenario.pattern)
                      THEN [obs EXCEPT !.warnings = Append(@, "match_all")]
                      ELSE obs
    /\ UNCHANGED <<files, dirs, logs, now, scenario, faults, step_no, run, org, gen,
                   cur, und>>

(* _validate_syntax_structure *)
ValidateSyntaxStructure ==
    /\ pc = "syntax"
    /\ pc' = IF UnbalancedBrackets(scenario.pattern) \/ BadRecursiveWildcard(scenario.pattern)
             THEN "exit" ELSE "brackets"
    /\ UNCHANGED <<files, dirs, logs, now, scenario, faults, step_no, run, org, gen,
                   cur, und, obs>>

(* One test of _check_practical_issues: a warning and a prompt when the
   condition holds, nothing otherwise. *)
Check(at, issue, question, next) ==
    /\ pc = at
    /\ IF issue
       THEN \E reply \in BOOLEAN :
              /\ obs' = [obs EXCEPT
                           !.warnings = Append(@, question),
                           !.prompts = Append(@, [question |-> question, reply |-> reply])]
              /\ pc' = AfterReply(reply, next)
       ELSE pc' = next /\ UNCHANGED obs
    /\ UNCHANGED <<files, dirs, logs, now, scenario, faults, step_no, run, org, gen,
                   cur, und>>

CheckLiteralBrackets ==
    Check("brackets", LiteralBrackets(scenario.pattern), "literal_pattern", "slashes")
CheckDoubleSlashes ==
    Check("slashes", DoubleSlashes(scenario.pattern), "redundant_slashes", "backslashes")
CheckBackslashes ==
    Check("backslashes", Backslashes(scenario.pattern), "backslashes", "engine")

(* _validate_with_pathlib_engine: PurePath.match raises only for a pattern
   without parts, which no non-empty pattern of this alphabet is *)
ValidateWithPathlibEngine ==
    /\ pc = "engine"
    /\ pc' = "valid"
    /\ UNCHANGED <<files, dirs, logs, now, scenario, faults, step_no, run, org, gen,
                   cur, und, obs>>

NextPattern ==
    \/ ValidateInput
    \/ ValidateSyntaxStructure
    \/ CheckLiteralBrackets
    \/ CheckDoubleSlashes
    \/ CheckBackslashes
    \/ ValidateWithPathlibEngine

SpecPattern == InitPattern /\ [][NextPattern]_vars

----------------------------------------------------------------------------
(* get_last_history on a log directory of its own, as undo() calls it.  An
   entry of the directory is its name: prefix, timestamp text (a number when
   it is of the form YYYYMMDD_HHMMSS, 0 when it is not) and suffix. *)

LogName(prefix, stamp, suffix) == [prefix |-> prefix, stamp |-> stamp, suffix |-> suffix]

LogNames ==
    { LogName("history_", t, ".json") : t \in 1..MaxStamps }
    \cup { LogName("history_", 0, ".json"),                \* history_backup.json
           LogName("notes_", 0, ".json"),                  \* notes_x.json
           LogName("history_", MaxStamps + 1, ".txt") }    \* history_<stamp>.txt

(* datetime.strptime(stem without "history_", "%Y%m%d_%H%M%S") *)
IsTimestamp(file) == file.stamp > 0

NoScan == [remaining |-> {}, histories_date_and_time |-> {}, outcome |-> "none",
           returned |-> 0, undo |-> "none"]

InitHistory ==
    /\ scenario \in { [logs_dir_exists |-> e, names |-> N] :
                        e \in BOOLEAN, N \in SUBSET LogNames }
    /\ scenario.logs_dir_exists \/ scenario.names = {}
    /\ obs = NoScan
    /\ pc = "get_last_history"
    /\ files = FileTable({}) /\ dirs = {} /\ logs = NoLogs
    /\ now = 0
    /\ faults = 0
    /\ step_no = 0
    /\ run = NoRun /\ org = NoOrganizer /\ gen = NoGen /\ cur = NoFile /\ und = NoUndo

(* if not logs_dir_path.exists(): raise typer.Exit(1) *)
CheckLogsDir ==
    /\ pc = "get_last_history"
    /\ IF scenario.logs_dir_exists
       THEN /\ pc' = "iterdir"
            /\ obs' = [obs EXCEPT !.remaining = scenario.names]
       ELSE /\ pc' = "raised"
            /\ obs' = [obs EXCEPT !.outcome = "Exit(1)"]
    /\ UNCHANGED <<files, dirs, logs, now, scenario, faults, step_no, run, org, gen,
                   cur, und>>

(* one round of `for file in logs_dir_path.iterdir()` *)
ScanFile ==
    /\ pc = "iterdir"
    /\ \E file \in obs.remaining :
         IF file.suffix # ".json" \/ file.prefix # "history_"
         THEN /\ obs' = [obs EXCEPT !.remaining = @ \ {file}]
              /\ pc' = pc
         ELSE IF IsTimestamp(file)
         THEN /\ obs' = [obs EXCEPT !.remaining = @ \ {file},
                                    !.histories_date_and_time = @ \cup {file.stamp}]
              /\ pc' = pc
         ELSE \* strptime raises ValueError, which nothing catches
              /\ obs' = [obs EXCEPT !.outcome = "ValueError"]
              /\ pc' = "raised"
    /\ UNCHANGED <<files, dirs, logs, now, scenario, faults, step_no, run, org, gen,
                   cur, und>>

(* after the loop: no history, or the greatest date and time *)
PickLast ==
    /\ pc = "iterdir"
    /\ obs.remaining = {}
    /\ IF obs.histories_date_and_time = {}
       THEN /\ obs' = [obs EXCEPT !.outcome = "Exit(0)"]
            /\ pc' = "raised"
       ELSE /\ obs' = [obs EXCEPT !.outcome = "return",
                                  !.returned = Max(obs.histories_date_and_time)]
            /\ pc' = "returned"
    /\ UNCHANGED <<files, dirs, logs, now, scenario, faults, step_no, run, org, gen,
                   cur, und>>

(* undo(): `except typer.Exit: return`; any other exception leaves undo() *)
UndoCatches ==
    /\ pc = "raised"
    /\ obs' = [obs EXCEPT !.undo = IF obs.outcome \in {"Exit(0)", "Exit(1)"}
                                   THEN "returns" ELSE "crashes"]
    /\ pc' = "ended"
    /\ UNCHANGED <<files, dirs, logs, now, scenario, faults, step_no, run, org, gen,
                   cur, und>>

(* undo() goes on to undo_files with the path returned *)
UndoGoesOn ==
    /\ pc = "returned"
    /\ obs' = [obs EXCEPT !.undo = "undo_files"]
    /\ pc' = "ended"
    /\ UNCHANGED <<files, dirs, logs, now, scenario, faults, step_no, run, org, gen,
                   cur, und>>

NextHistory ==
    \/ CheckLogsDir
    \/ ScanFile
    \/ PickLast
    \/ UndoCatches
    \/ UndoGoesOn

SpecHistory == InitHistory /\ [][NextHistory]_vars

----------------------------------------------------------------------------
(* Properties *)

Idle          == pc = "idle"
LastDone      == obs.done[Len(obs.done)]
JustDone(cmd, status) ==
    Idle /\ obs.done # << >> /\ LastDone = [cmd |-> cmd, status |-> status]
(* The commands finished so far are a completed real organize, then undo *)
OrganizedThenUndone ==
    /\ Idle
    /\ Len(obs.done) >= 2
    /\ obs.done[Len(obs.done) - 1] = [cmd |-> "organize", status |-> "ok"]
    /\ LastDone.cmd = "undo"
NewestLog     == logs[get_last_history]
MultiDir      == Len(scenario.paths) >= 2

(* C1: a completed real organize followed by undo leaves exactly the original
   files: each at its original path, none anywhere else.  Stated for the runs
   in which the operating system raised no error. *)
C1_RoundTrip ==
    (OrganizedThenUndone /\ faults = 0) => files = obs.orig.files

(* C2: every file whose suffix is in category C's extensions and whose size
   is in variant V's band is categorized as "V-C", whatever was categorized
   before it. *)
C2_CategorizeByBand ==
    \A r \in obs.categorized :
      \A ci \in 1..Len(file_categories.categories) :
        LET category == file_categories.categories[ci]
        IN  \A vi \in 1..Len(category.variants) :
              LET v == category.variants[vi]
              IN  (r.suffix \in category.extensions
                     /\ "name" \in DOMAIN v
                     /\ InBand(r.size, v.min_size_mb, v.max_size_mb))
                  => r.destination_dir = v.name \o "-" \o category.name

(* C3: when a real organize run finishes its last directory normally, the
   history file ends with the closing bracket. *)
C3_Sealed ==
    JustDone("organize", "ok") =>
        NewestLog[Len(NewestLog)] = Tok("]")

WellFormed(content) ==
    LET n == Len(content)
    IN  /\ n >= 2
        /\ content[1] = Tok("[")
        /\ content[n] = Tok("]")
        /\ \A i \in 2..(n - 1) :
             IF i % 2 = 0 THEN content[i].tok = "entry" ELSE content[i] = Tok(",")
        /\ (n > 2 => content[n - 1].tok = "entry")

(* C5: after a real multi-directory run that finished its last directory, the
   history file is one well-formed JSON array. *)
C5_OneArray ==
    (JustDone("organize", "ok") /\ MultiDir) => WellFormed(NewestLog)

(* C6: organize never overwrites or removes a file that is already there: a
   step of a real run leaves every file but the one being moved where it
   was, with its content; and the moved file appears under its own name when
   that name is free in the destination directory, else under
   <stem>_k<suffix> for the smallest k >= 1 that is free. *)
Numbered(destination_path, file_name, k) ==
    joinpath(destination_path, Name(file_name.stem \o "_" \o ToString(k), file_name.suf))
C6_NeverOverwrites ==
    [][ (obs.cmd = "organize" /\ obs.status = "running") =>
          /\ \A p \in DOMAIN files :
                p # cur.file => (p \in DOMAIN files' /\ files'[p] = files[p])
          /\ (pc \in {"move_file", "fallback"} /\ DOMAIN files' # DOMAIN files) =>
                \E new \in DOMAIN files' \ DOMAIN files :
                  /\ files'[new] = files[cur.file]
                  /\ ~exists(new)
                  /\ IF ~exists(joinpath(cur.destination_path, name(cur.file)))
                     THEN new = joinpath(cur.destination_path, name(cur.file))
                     ELSE \E k \in 1..(Cardinality(DOMAIN files) + 1) :
                            /\ new = Numbered(cur.destination_path, name(cur.file), k)
                            /\ \A j \in 1..(k - 1) :
                                  exists(Numbered(cur.destination_path, name(cur.file), j))
      ]_vars
(* the moved file found a.jpg and a_1.jpg taken and was stored as a_2.jpg *)
C6_Witness ==
    /\ pc = "flush"
    /\ obs.cmd = "organize"
    /\ cur.file = joinpath(D1, Name("a", ".jpg"))
    /\ cur.target_path = joinpath(cur.destination_path, Name("a_2", ".jpg"))
    /\ is_file(cur.target_path)
    /\ files[cur.target_path].id = 1
    /\ is_file(joinpath(cur.destination_path, Name("a", ".jpg")))
    /\ is_file(joinpath(cur.destination_path, Name("a_1", ".jpg")))

(* C9: in undo, one entry of the history leads to a rename back exactly when
   it is a move_file entry with status "success" whose source (the new
   location) exists and whose destination (the original location) does not;
   every entry, renamed or skipped, is followed by the next one; and a step
   leaves every file but the one renamed where it was, with its content, so
   nothing at an original location is overwritten or deleted. *)
RenameCalled == und'.moved_back_count + und'.errors_count
                    # und.moved_back_count + und.errors_count
C9_RenamesBackIff ==
    [][ (pc = "undo_files" /\ und.idx <= Len(und.all_history)) =>
          LET history == und.all_history[und.idx]
              due == /\ history.action = "move_file"
                     /\ history.status = "success"
                     /\ exists(history.source)
                     /\ ~exists(history.destination)
          IN  /\ und'.idx = und.idx + 1
              /\ pc' = "undo_files"
              /\ RenameCalled <=> due
              /\ files' # files => due
              /\ (due /\ is_dir(parent(history.destination))) =>
                    /\ history.destination \in DOMAIN files'
                    /\ files'[history.destination] = files[history.source]
                    /\ history.source \notin DOMAIN files'
              /\ \A p \in DOMAIN files :
                    (history.action = "move_file" => p # history.source)
                       => (p \in DOMAIN files' /\ files'[p] = files[p])
              /\ dirs' = dirs
      ]_vars
(* a failed entry was skipped, the next was renamed back, and the third was
   skipped because a file stands at its original location, untouched *)
C9_Witness ==
    /\ pc = "undo_files"
    /\ und.idx = 4
    /\ und.all_history[1].action = "move_file"
    /\ und.all_history[1].status = "failed"
    /\ obs.moved_back = {2}
    /\ und.all_history[3].action = "move_file"
    /\ und.all_history[3].status = "success"
    /\ is_file(und.all_history[3].source)
    /\ is_file(und.all_history[3].destination)
    /\ files[und.all_history[3].destination] = obs.orig.files[und.all_history[3].destination]

(* C10: undo removes directories only once every entry of the history has
   been processed; the directories are those of the successful create_dir
   entries, taken latest created first; one is removed only if it is empty
   at that moment, and one that is not empty or is missing is left as it is,
   with its files, and the next one is handled. *)
CreatedDirs(all_history) ==
    LET made == SelectSeq(all_history,
                          LAMBDA h : h.action = "create_dir" /\ h.status = "success")
    IN  [i \in 1..Len(made) |-> made[i].path]
C10_RemovesDirsLast ==
    [][ /\ dirs' # dirs => (pc = "remove_dirs" /\ und.idx > Len(und.all_history))
        /\ (pc = "remove_dirs" /\ und.todo # << >>) =>
              LET dir_path == und.dirs_path[Head(und.todo)]
              IN  /\ und.dirs_path = CreatedDirs(und.all_history)
                  /\ \A k \in 1..Len(und.todo) : und.todo[k] <= Head(und.todo)
                  /\ Head(und.todo) = Len(und.todo)
                  /\ und'.todo = Tail(und.todo)
                  /\ IF dir_path \in dirs /\ iterdir(dir_path) = {}
                     THEN dirs' = dirs \ {dir_path}
                     ELSE dirs' = dirs
                  /\ files' = files
      ]_vars
(* three directories collected: the latest was removed, the second was not
   empty and was left, the first was removed after it *)
C10_Witness ==
    /\ JustDone("undo", "ok")
    /\ Len(und.dirs_path) = 3
    /\ obs.removed = <<3, 1>>
    /\ und.dirs_errors_count = 1
    /\ und.dirs_path[2] \in dirs
    /\ \E p \in DOMAIN files : parent(p) = und.dirs_path[2]

(* C11: undo reverts the moves in the opposite order to the one in which they
   were recorded: when an entry is renamed back, no successful move recorded
   after it is still waiting to be handled. *)
C11_LastMoveFirst ==
    [][ (pc = "undo_files" /\ und.idx <= Len(und.all_history) /\ RenameCalled) =>
          \A j \in (und.idx + 1)..Len(und.all_history) :
             ~ (und.all_history[j].action = "move_file"
                  /\ und.all_history[j].status = "success")
      ]_vars

(* A requested path that validation must refuse whatever the options *)
Unusable(path) == ~exists(path) \/ ~is_dir(path) \/ ~os_access(path)
Organizing == obs.cmd \in {"organize", "dry"} /\ obs.status = "running"

(* C12: with force set, a path that does not exist, is not a directory or
   cannot be read and written is still refused: it is not among the valid
   paths and no organizer is made for it. *)
C12_ForceKeepsBasicChecks ==
    (Organizing /\ scenario.force) =>
        /\ \A i \in 1..Len(run.valid_paths) : ~Unusable(run.valid_paths[i])
        /\ (org.dir_path # << >> => ~Unusable(org.dir_path))

(* C15: when a requested root does not exist, is not a directory, or is not
   allowed and force is not set, the run moves no file and creates no
   directory. *)
Refused(path) ==
    \/ ~exists(path)
    \/ ~is_dir(path)
    \/ (~scenario.force /\ ~is_allowed(path, scenario.allowed_paths))
C15_InvalidRootAborts ==
    (obs.cmd \in {"organize", "dry"}
        /\ \E i \in 1..Len(scenario.paths) : Refused(scenario.paths[i]))
    => (files = obs.before.files /\ dirs = obs.before.dirs)

(* C13: is_allowed(home) is true exactly when the home directory is itself an
   entry of the allow-list; any other path is allowed exactly when it equals
   or is nested under an entry of the list. *)
C13_IsAllowed ==
    obs.is_allowed # Unknown =>
        LET path == scenario.paths[1]
        IN  obs.is_allowed[1] =
              IF path = home_dir
              THEN home_dir \in scenario.allowed_paths
              ELSE \E a \in scenario.allowed_paths :
                      Len(a) <= Len(path) /\ \A i \in 1..Len(a) : path[i] = a[i]

(* C14: is_protected is true for the home directory; for a path strictly
   under home it is true exactly when one of the path's components is a
   sensitive hidden name; for a path outside home it is true when the path
   equals or is nested under a directory of the deny-list.  So
   <home>/Documents is not protected, <home>/.ssh and /etc are. *)
UnderHome(path) ==
    Len(path) > Len(home_dir) /\ \A i \in 1..Len(home_dir) : path[i] = home_dir[i]
C14_IsProtected ==
    obs.is_protected # Unknown =>
        LET path == scenario.paths[1]
            protected == obs.is_protected[1]
        IN  /\ path = home_dir => protected
            /\ UnderHome(path) =>
                  (protected <=>
                     \E i \in 1..Len(path) : part(path[i]) \in _protected_hidden)
            /\ (path # home_dir /\ ~UnderHome(path)
                   /\ \E d \in _core_protected :
                         Len(d) <= Len(path) /\ \A i \in 1..Len(d) : path[i] = d[i])
                  => protected
            /\ path = joinpath(home_dir, DirName("Documents")) => ~protected
            /\ path = joinpath(home_dir, DirName(".ssh")) => protected
            /\ path = << DirName("etc") >> => protected
(* a sensitive name above the last component of a path under home *)
C14_Witness ==
    /\ scenario.paths[1] = << DirName("home"), DirName("user"), DirName(".ssh"),
                              DirName("Documents") >>
    /\ obs.is_protected = << TRUE >>

(* C16: a file that reaches a variant without a name (its suffix is the
   category's, and the first variant whose band holds its size has no name)
   aborts the run, so no such file is ever given a destination; and the run
   is aborted for this reason only on such a file. *)
C16_NamelessVariantAborts ==
    /\ \A r \in obs.categorized : ~ReachesNameless(r.suffix, r.size)
    /\ \A r \in obs.aborted : ReachesNameless(r.suffix, r.size)

(* C17: a failure while moving one file is counted as exactly one error and
   not as a moved file, the loop goes on with the run still running, and a
   run that completes has processed every file the listing yielded: each is
   counted once, as moved or as an error. *)
InMove == pc \in {"move_file", "fallback", "unlink"}
C17_FailureIsCountedAndSkipped ==
    /\ [][ (InMove /\ org'.errors_count # org.errors_count) =>
              /\ org'.errors_count = org.errors_count + 1
              /\ org'.moved_files_count = org.moved_files_count
              /\ pc' = "flush"
              /\ obs'.status = "running"
          ]_vars
    /\ [] \A cmd \in {"organize", "dry"} :
            JustDone(cmd, "ok") =>
                obs.report[cmd].moved + obs.report[cmd].errors = obs.yielded
(* a file was moved after the move of an earlier file had failed *)
C17_Witness ==
    /\ pc = "flush"
    /\ org.errors_count = 1
    /\ org.moved_files_count = 1
    /\ exists(cur.target_path) /\ ~exists(cur.file)

(* C18: after a completed real organize run the history file holds, for every
   move the run made, exactly one move_file entry, with status "success",
   source the file's new path and destination its original path; the
   move_file entries of the file are those of the moves, in their order, none
   twice.  "Holds" is read on the text of the file: its entries as written. *)
MoveEntries(content) ==
    SelectSeq(content, LAMBDA t : t.tok = "entry" /\ t.entry.action = "move_file")
EntryOf(m, t) ==
    /\ t.entry.source = m.new_path
    /\ t.entry.destination = m.original_path
    /\ t.entry.status = "success"
C19_NoFileLost ==
    \A p \in DOMAIN obs.orig.files :
      \E q \in DOMAIN files :
        /\ files[q] = obs.orig.files[p]
        /\ \/ q = p
           \/ [id |-> files[q].id, path |-> q] \in obs.chosen
(* in the fallback, between the copy and the removal of the original *)
C19_Witness ==
    /\ pc = "unlink"
    /\ exists(cur.file) /\ exists(cur.target_path)
    /\ files[cur.target_path] = files[cur.file]

(* C20: organizing a directory that yields no candidate file has no effect:
   no file or directory is created, changed or removed, no history file is
   created or left behind, and undo would still select the log it selected
   before the run. *)
NoCandidates ==
    /\ Len(scenario.paths) = 1
    /\ \E cmd \in {"organize", "dry"} : JustDone(cmd, "exit")
C20_NoFilesNoEffect ==
    NoCandidates =>
        /\ files = obs.before.files
        /\ dirs = obs.before.dirs
        /\ DOMAIN logs = DOMAIN obs.before.logs
        /\ logs = obs.before.logs

(* C21: _validate_input asks the user to confirm the catch-all pattern "*":
   once it has handled such a pattern a prompt has been shown, the pattern is
   accepted when the answer was yes and Exit is raised when it was no. *)
PastInput == pc \notin {"input"}
C21_CatchAllIsConfirmed ==
    (PastInput /\ CatchAll(scenario.pattern)) =>
        /\ Len(obs.prompts) >= 1
        /\ (pc = "exit" <=> ~obs.prompts[1].reply)

(* C26: in _check_practical_issues a prompt is shown for each issue the
   pattern has, in the order literal brackets, double slashes, backslashes,
   and for nothing else; the function returns exactly when every answer was
   yes, and raises Exit at the first no, with no further prompt.  A pattern
   with none of the issues passes without a prompt. *)
Issues(pattern) ==
    (IF LiteralBrackets(pattern) THEN << "literal_pattern" >> ELSE << >>)
    \o (IF DoubleSlashes(pattern) THEN << "redundant_slashes" >> ELSE << >>)
    \o (IF Backslashes(pattern) THEN << "backslashes" >> ELSE << >>)
Asked == [i \in 1..Len(obs.prompts) |-> obs.prompts[i].question]
AllYes == \A i \in 1..Len(obs.prompts) : obs.prompts[i].reply
ReachedPractical ==
    /\ ~EmptyPattern(scenario.pattern)
    /\ ~UnbalancedBrackets(scenario.pattern)
    /\ ~BadRecursiveWildcard(scenario.pattern)
C26_PracticalIssuesAreConfirmed ==
    ReachedPractical =>
        /\ pc \in {"engine", "valid"} =>
              Asked = Issues(scenario.pattern) /\ AllYes
        /\ pc = "exit" =>
              /\ obs.prompts # << >>
              /\ ~obs.prompts[Len(obs.prompts)].reply
              /\ \A i \in 1..(Len(obs.prompts) - 1) : obs.prompts[i].reply
              /\ Asked = SubSeq(Issues(scenario.pattern), 1, Len(obs.prompts))
        /\ Issues(scenario.pattern) = << >> => obs.prompts = << >> /\ pc # "exit"
(* two warnings, both confirmed *)
C26_Witness ==
    /\ pc = "valid"
    /\ Len(obs.prompts) = 2
    /\ AllYes

(* C22: category matching uses the lower-cased suffix: a file whose suffix
   differs only in letter case from an extension of a category is given a
   destination of that category, not the default one. *)
lower(suffix) == IF suffix = ".JPG" THEN ".jpg" ELSE suffix
OfCategory(destination_dir, category) ==
    \/ destination_dir = category.name
    \/ \E vi \in 1..Len(category.variants) :
         /\ "name" \in DOMAIN category.variants[vi]
         /\ destination_dir = category.variants[vi].name \o "-" \o category.name
C22_SuffixCaseIgnored ==
    \A r \in obs.categorized :
      \A ci \in 1..Len(file_categories.categories) :
        LET category == file_categories.categories[ci]
        IN  lower(r.suffix) \in category.extensions
              => /\ OfCategory(r.destination_dir, category)
                 /\ r.destination_dir # file_categories.defaults.name

(* C23: the hidden-file flag controls the listing: after an organize invoked
   with include_hidden, in which no move failed, no file whose name begins
   with a dot is left directly in the organized directory; invoked without
   it, no such file is ever moved. *)
HiddenIn(fs, d) == {f \in DOMAIN fs : parent(f) = d /\ startswith_dot(name(f))}
OrganizeEnded ==
    /\ Idle /\ obs.done # << >>
    /\ LastDone.cmd = "organize"
    /\ LastDone.status \in {"ok", "exit"}
C23_HiddenFlagControls ==
    /\ (OrganizeEnded /\ scenario.include_hidden /\ faults = 0
          /\ Len(scenario.paths) = 1 /\ ~scenario.recursive)
        => HiddenIn(obs.before.files, scenario.paths[1]) \cap DOMAIN files = {}
    /\ ~scenario.include_hidden
        => \A i \in 1..Len(obs.moves) : ~startswith_dot(name(obs.moves[i].original_path))

(* C24: a file inside a directory created by the current run is never
   yielded as a candidate, whatever the order in which the lazy traversal,
   the directory creations and the moves interleave: the file the loop is
   handling is in none of the directories the organizer has created. *)
C24_CreatedDirsNotRevisited ==
    pc \in {"create_dir", "move_file", "fallback", "unlink"} =>
        \A created_dir \in org.created_dirs :
            ~is_relative_to(cur.file, created_dir)
(* the traversal is listing a directory this run created and filled *)
C24_Witness ==
    /\ pc = "next"
    /\ ~org.dry_run
    /\ gen.at \in org.created_dirs
    /\ \E f \in gen.entries : is_file(f)

(* C25: get_last_history returns the file with the greatest timestamp among
   the files named history_<YYYYMMDD_HHMMSS>.json of the log directory; when
   the directory is absent or holds no such file, it signals the no-history
   condition, which undo takes as a normal return: nothing crashes. *)
HistoryFiles ==
    {file \in scenario.names :
        file.prefix = "history_" /\ file.suffix = ".json" /\ IsTimestamp(file)}
C25_LastHistoryOrNoHistory ==
    pc = "ended" =>
        IF scenario.logs_dir_exists /\ HistoryFiles # {}
        THEN /\ obs.outcome = "return"
             /\ obs.returned = Max({file.stamp : file \in HistoryFiles})
        ELSE /\ obs.outcome \in {"Exit(0)", "Exit(1)"}
             /\ obs.undo = "returns"

(* C27: organize never removes a directory that existed before the run:
   during and after a real organize every directory that existed beforehand,
   empty ones included, still exists. *)
C27_KeepsExistingDirs ==
    (obs.cmd = "organize" /\ obs.status \in {"running", "ok"}) =>
        obs.before.dirs \subseteq dirs

(* C28: when a real organize run is aborted by the missing-variant-name
   error, every move and every directory creation made before the abort is
   in the history file when the run ends. *)
DirEntries(content) ==
    SelectSeq(content, LAMBDA t : t.tok = "entry" /\ t.entry.action = "create_dir")
C28_AbortKeepsHistory ==
    JustDone("organize", "abort") =>
        /\ \A i \in 1..Len(obs.moves) :
              \E j \in 1..Len(MoveEntries(NewestLog)) :
                 EntryOf(obs.moves[i], MoveEntries(NewestLog)[j])
        /\ \A created_dir \in org.created_dirs :
              \E j \in 1..Len(DirEntries(NewestLog)) :
                 DirEntries(NewestLog)[j].entry.path = created_dir

(* C29: within one organize run no file is moved more than once: no move of
   the run takes a file from the place an earlier move of the run put it. *)
C29_MovedAtMostOnce ==
    \A i \in 1..Len(obs.moves) :
      \A j \in (i + 1)..Len(obs.moves) :
        obs.moves[j].original_path # obs.moves[i].new_path

(* C30: undo is idempotent: a second undo right after an undo, on the same
   history log, moves no file and removes no directory, and leaves the files
   and directories as the first undo left them. *)
SecondUndo ==
    /\ Len(obs.done) >= 1
    /\ LastDone.cmd = "undo"
    /\ obs.cmd = "undo"
    /\ \/ ~Idle
       \/ Len(obs.done) >= 2 /\ obs.done[Len(obs.done) - 1].cmd = "undo"
C30_UndoIdempotent ==
    SecondUndo =>
        /\ files = obs.before.files
        /\ dirs = obs.before.dirs
        /\ und.moved_back_count = 0
        /\ und.removed_dirs_count = 0

(* C7: a dry run changes neither files nor directories nor history files. *)
C7_DryRunChangesNothing ==
    obs.cmd = "dry" =>
        /\ files = obs.before.files
        /\ dirs = obs.before.dirs
        /\ logs = obs.before.logs
C7_Witness ==
    /\ JustDone("dry", "ok")
    /\ MultiDir
    /\ obs.report.dry.moved >= 2
    /\ obs.report.dry.created >= 2

(* C8: a dry run and a real run of the same input report the same counts.
   Stated for the runs in which the operating system raised no error. *)
C8_SameCounts ==
    (obs.report.dry # NoReport /\ obs.report.organize # NoReport /\ faults = 0)
        => obs.report.dry = obs.report.organize

====
